---- MODULE Spec2Model ----
(***************************************************************************)
(* Model of git_mirror_exporter.py: the nonce-based export of conversation *)
(* rows from the chats table into a git working tree, and the incremental  *)
(* state (last_export.json, nonce_map.json) it keeps between runs.         *)
(*                                                                         *)
(* Text is a sequence of words.  A word stands for one whitespace-free     *)
(* token of the real text; the regular expressions of redact_content and   *)
(* the substring test of should_export_conversation act on whole words.    *)
(* Python's None and "" are both the empty sequence: the code only ever    *)
(* tests them for truthiness (not content, summary or "").                 *)
(* Time is a natural number (clock) that counts the instants at which a   *)
(* row is inserted; datetime.now() reads the latest such instant, and a   *)
(* row's created_at is the instant of its insertion.                       *)
(***************************************************************************)
EXTENDS Integers, Sequences, FiniteSets, TLC

(* ---- bounds of the model ---------------------------------------------- *)
MaxRecords == 2    \* rows ever inserted into chats
MaxRuns == 3       \* invocations of export_memory_to_git
MaxFaults == 1     \* environment faults injected (I/O errors, git errors, kills)
MaxRunFaults == 3  \* the same, in the behaviours of a single invocation
MaxLen == 3        \* words of a text a function is applied to on its own
MaxSize == 3       \* the size argument of chunk_content applied on its own
MaxConcRuns == 2   \* invocations in the behaviours with two processes
(* scaled program sizes: a unit of text is a word, a month is MonthLen ticks *)
CHUNK_SIZE == 2
TITLE_LEN == 2
PREVIEW_LEN == 2
QUERY_LIMIT == 1
MonthLen == 2

(* ---- configuration ----------------------------------------------------- *)
PUBLIC_TAGS == {"memory", "breakthrough", "historic", "system", "development"}

CHUNK_DIR == "chunks"
SHARD_TAG_DIR == "catalog/shards/by_tag"
SHARD_DATE_DIR == "catalog/shards/by_date"
CATALOG_DIR == "catalog"
META_DIR == "meta"
LAST_EXPORT_FILE == META_DIR \o "/last_export.json"
NONCE_MAP_FILE == META_DIR \o "/nonce_map.json"

(* ---- words -------------------------------------------------------------- *)
EmailWord == "bob@example.com"
PhoneWord == "555-123-4567"
IpWord == "10.0.0.7"
AllowedIpWord == "104.191.236.122"
(* an address with a phone number right behind it, and a phone number right
   behind a letter (no word boundary before it) *)
GluedWord == EmailWord \o PhoneWord
NoBoundaryWord == "x" \o PhoneWord

(* str.lower() on one word *)
LowerWord(w) ==
    CASE w = "Memory" -> "memory"
      [] w = "Systematic" -> "systematic"
      [] OTHER -> w

(* tag in word, for the words of the model: a tag occurs in a word when the
   lower-cased word is the tag, or has it as a substring ("systematic") *)
TagInWord(tag, w) ==
    LowerWord(w) = tag \/ (tag = "system" /\ LowerWord(w) = "systematic")

Range(s) == {s[i] : i \in 1..Len(s)}

Take(s, n) == SubSeq(s, 1, IF n < Len(s) THEN n ELSE Len(s))

(* ---- should_export_conversation ---------------------------------------- *)
(* a test that does not look at whether there is content *)
should_export_tags_any_content(content, summary) ==
    {tag \in PUBLIC_TAGS : \E w \in Range(content \o summary) : TagInWord(tag, w)}

should_export_tags(content, summary) ==
    IF content = <<>> THEN {}
    ELSE {tag \in PUBLIC_TAGS :
             \E w \in Range(content \o summary) : TagInWord(tag, w)}

should_export_conversation(content, summary) ==
    should_export_tags(content, summary) # {}

(* ---- redact_content ----------------------------------------------------- *)
(* line 303: the address is replaced, what follows its top-level domain stays *)
RedactEmail(w) ==
    CASE w = EmailWord -> "<redacted.email>"
      [] w = GluedWord -> "<redacted.email>" \o PhoneWord
      [] OTHER -> w
(* line 306: a phone number between word boundaries; ">" ends a word,
   a letter does not *)
RedactPhone(w) ==
    CASE w = PhoneWord -> "<redacted.phone>"
      [] w = "<redacted.email>" \o PhoneWord -> "<redacted.email><redacted.phone>"
      [] OTHER -> w
(* line 309: every dotted quad but the allow-listed one *)
RedactIp(w) == IF w = IpWord THEN "<redacted.ip>" ELSE w

(* a redaction that looks for phone numbers before addresses *)
redact_content_phone_first(text) ==
    [i \in 1..Len(text) |-> RedactIp(RedactEmail(RedactPhone(text[i])))]

redact_content(text) ==
    [i \in 1..Len(text) |-> RedactIp(RedactPhone(RedactEmail(text[i])))]

(* ---- chunk_content ------------------------------------------------------ *)
(* a chunking that leaves out a last chunk shorter than size *)
chunk_content_whole_only(text, size) ==
    [k \in 1..(Len(text) \div size) |->
          [ix |-> k - 1, text |-> SubSeq(text, (k - 1) * size + 1, k * size)]]

chunk_content(text, size) ==
    LET n == (Len(text) + size - 1) \div size
    IN [k \in 1..n |->
          [ix |-> k - 1,
           text |-> SubSeq(text, (k - 1) * size + 1,
                           IF k * size < Len(text) THEN k * size ELSE Len(text))]]

(* ---- timestamps --------------------------------------------------------- *)
(* datetime.isoformat() and datetime.fromisoformat() *)
isoformat(t) == "T" \o ToString(t)
fromisoformat(s) == CHOOSE t \in 0..(MaxRecords + 1) : isoformat(t) = s
(* created_at.strftime("%Y-%m") *)
strftime_month(t) == "2025-" \o ToString(8 + (t \div MonthLen))

(* datetime.utcnow().isoformat() + "Z" at line 435: an instant of its own for
   every run, named after the run *)
utcnow_iso(n) == "utcnow-" \o n \o "Z"

(* sorted(tags): Python orders strings lexicographically *)
TagOrder == <<"breakthrough", "development", "historic", "memory", "system">>
IsTag(t, S) == t \in S
sorted_tags(S) == SelectSeq(TagOrder, LAMBDA t : IsTag(t, S))

(* ---- files --------------------------------------------------------------- *)
(* a file truncated by open(path, 'w') whose json.dump then failed *)
Truncated == [kind |-> "truncated"]
Exists(t, path) == path \in DOMAIN t
Valid(t, path) == Exists(t, path) /\ t[path] # Truncated
Put(t, path, data) == [q \in DOMAIN t \cup {path} |-> IF q = path THEN data ELSE t[q]]

(* save_json_file: outcome "ok" writes the data; "keep" is a failed open,
   the file is as before; "trunc" is a failed dump, the file is truncated *)
save_json_file(t, path, data, outcome) ==
    CASE outcome = "ok" -> Put(t, path, data)
      [] outcome = "trunc" -> Put(t, path, Truncated)
      [] OTHER -> t

(* ---- nonce filenames ------------------------------------------------------ *)
NoNonce == ""
Fallback(base_name) == base_name \o ".json"
NonceName(base_name, nonce) == base_name \o "_" \o nonce \o ".json"

(* the value get_nonce_filename returns *)
get_nonce_filename(base_name, nonce_map, nonce) ==
    IF base_name \in DOMAIN nonce_map THEN nonce_map[base_name]
    ELSE IF nonce = NoNonce THEN Fallback(base_name)
    ELSE NonceName(base_name, nonce)

(* the nonce_map get_nonce_filename leaves behind *)
nonce_map_after(base_name, nonce_map, nonce) ==
    IF base_name \in DOMAIN nonce_map \/ nonce = NoNonce THEN nonce_map
    ELSE nonce_map @@ (base_name :> NonceName(base_name, nonce))

(* ---- state ---------------------------------------------------------------- *)
VARIABLES
    clock,    \* the current instant
    chats,    \* the rows of the chats table
    tree,     \* the working tree under REPO_DIR: path -> file content
    head,     \* the tree of the last local commit
    remote,   \* the tree last pushed: what is published
    run,      \* per invocation of export_memory_to_git: its position and locals
    runs,     \* invocations started so far
    faults,   \* environment faults injected so far
    hist,     \* history read by the properties only: the ids exported by the
              \* successful runs, whether no row was inserted since the last run
              \* began, the addresses resolved by the runs that saved the nonce
              \* map, whether an invocation began while another was running
    limits,   \* how many invocations and faults a behaviour has, and the
              \* limit argument of load_conversations_from_db
    probe     \* the last call of a function applied on its own, with its result

vars == <<clock, chats, tree, head, remote, run, runs, faults, hist, limits, probe>>

Procs == {1, 2}

EmptyMap == <<>>

(* no function was applied on its own *)
NoProbe == [fn |-> "none"]

(* the locals of an invocation that is not running *)
Idle(result, exit) ==
    [pc |-> "idle", result |-> result, exit |-> exit,
     nonce_map |-> EmptyMap, last_export |-> {}, conversations |-> <<>>,
     new_items_by_tag |-> EmptyMap, new_items_by_month |-> EmptyMap,
     new_exported_count |-> 0,
     \* history of this invocation, read by the properties only
     nonce |-> NoNonce, start_time |-> 0, batch |-> {}, write_failed |-> FALSE,
     commit |-> "none", pushed |-> FALSE, resolved |-> EmptyMap]

Init ==
    /\ clock = 0
    /\ chats = {}
    /\ tree = EmptyMap
    /\ head = EmptyMap
    /\ remote = EmptyMap
    /\ run = [p \in Procs |-> Idle("none", "none")]
    /\ runs = 0
    /\ faults = 0
    /\ hist = [exported |-> {}, no_insert |-> FALSE, addresses |-> EmptyMap,
               overlap |-> FALSE]
    /\ limits = [runs |-> MaxRuns, faults |-> MaxFaults, rows |-> QUERY_LIMIT]
    /\ probe = NoProbe

(* ---- the store ------------------------------------------------------------ *)
(* the (content, summary) pairs a row is inserted with *)
Shapes ==
    { [content |-> <<"memory", "test">>, summary |-> <<>>],
      [content |-> <<"Memory", EmailWord, "of", AllowedIpWord, IpWord>>,
       summary |-> <<"system", EmailWord, PhoneWord>>],
      [content |-> <<>>, summary |-> <<"memory", PhoneWord>>] }

(* two more: a row with no tag at all, and one with a tag inside a word *)
ExtraShapes ==
    { [content |-> <<"hello", "world">>, summary |-> <<"greeting">>],
      [content |-> <<"Systematic">>, summary |-> <<>>] }

(* INSERT INTO chats: the row's created_at is the instant of the insertion *)
Insert(shape) ==
    /\ Cardinality(chats) < MaxRecords
    /\ clock' = clock + 1
    /\ chats' = chats \cup
          { [id |-> Cardinality(chats) + 1, created_at |-> clock + 1,
             source |-> "chat", content |-> shape.content,
             summary |-> shape.summary] }
    /\ hist' = [hist EXCEPT !.no_insert = FALSE]
    /\ UNCHANGED <<tree, head, remote, run, runs, faults, limits, probe>>

(* ---- loading the incremental state ---------------------------------------- *)
(* a run that starts from an empty map whatever nonce_map.json holds *)
load_nonce_map_ignored(t) == EmptyMap

load_nonce_map(t) ==
    IF Valid(t, NONCE_MAP_FILE) THEN t[NONCE_MAP_FILE].map ELSE EmptyMap

(* None is the empty set, a timestamp t is {t} *)
get_last_export_timestamp(t) ==
    IF Valid(t, LAST_EXPORT_FILE)
    THEN {fromisoformat(t[LAST_EXPORT_FILE].last_export_timestamp)}
    ELSE {}

(* secrets.token_urlsafe(12): a token no other invocation draws *)
generate_nonce(n) == "n" \o ToString(n)

(* ---- environment faults ---------------------------------------------------- *)
(* the subsets of S with at most k elements *)
RECURSIVE SubsetsUpTo(_, _)
SubsetsUpTo(S, k) ==
    IF k <= 0 THEN {{}}
    ELSE LET prev == SubsetsUpTo(S, k - 1)
         IN prev \cup {x \cup {s} : x \in prev, s \in S}

(* a fault is <<kind, name>>: "gen" fails the generate_nonce calls of the
   step, "keep" and "trunc" fail the write of the file of that logical name.
   Only the files the program reads back (nonce_map.json, last_export.json)
   have the two failure modes; a failed write of another file leaves it as
   it was *)
GenSites == {<<"gen", "secrets">>}
WriteSites(names) == {<<"keep", b>> : b \in names}
TruncSites(names) == {<<"trunc", b>> : b \in names}
FaultChoices(sites) == SubsetsUpTo(sites, limits.faults - faults)

Gen(F, base_name, nonce) == IF <<"gen", "secrets">> \in F THEN NoNonce ELSE nonce
Outcome(F, name) ==
    IF <<"trunc", name>> \in F THEN "trunc"
    ELSE IF <<"keep", name>> \in F THEN "keep" ELSE "ok"

(* ---- load_conversations_from_db -------------------------------------------- *)
(* WHERE created_at > %s *)
newer_than(created_at, since) == \A t \in since : created_at > t

RECURSIVE newest_first(_, _)
newest_first(rows, limit) ==
    IF rows = {} \/ limit = 0 THEN <<>>
    ELSE LET r == CHOOSE r \in rows : \A q \in rows : q.created_at <= r.created_at
         IN <<r>> \o newest_first(rows \ {r}, limit - 1)

load_conversations_from_db(rows, since_timestamp, limit) ==
    newest_first({r \in rows : newer_than(r.created_at, since_timestamp)}, limit)

(* ---- the run: query -------------------------------------------------------- *)
(* exit names the return statement taken; the properties read it *)
Return(p, result, exit) == [run EXCEPT ![p] = Idle(result, exit)]

(* two other return policies for an empty query result, which the
   properties on lines 359-365 have to tell apart from the program's *)
empty_result_never_success(is_incremental) == "False"
empty_result_always_success(is_incremental) == "True"

(* lines 359-365: the value returned when no conversation was loaded *)
empty_result(is_incremental) == IF is_incremental THEN "True" ELSE "False"

(* export_memory_to_git, lines 342-365: the state is loaded and the store is
   queried; db_ok = FALSE is a failed connection or query, which
   load_conversations_from_db turns into [] *)
Start(p, db_ok) ==
    /\ run[p].pc = "idle"
    /\ runs < limits.runs
    /\ db_ok \/ faults < limits.faults
    /\ runs' = runs + 1
    /\ LET nonce_map == load_nonce_map(tree)
           last_export == get_last_export_timestamp(tree)
           is_incremental == last_export # {}
           conversations ==
               IF db_ok THEN load_conversations_from_db(chats, last_export, limits.rows)
               ELSE <<>>
       IN run' = IF conversations = <<>>
                 THEN Return(p, empty_result(is_incremental), "empty")
                 ELSE [run EXCEPT ![p] =
                         [Idle("none", "none") EXCEPT
                            !.pc = "process",
                            !.nonce_map = nonce_map,
                            !.last_export = last_export,
                            !.conversations = conversations,
                            !.nonce = generate_nonce(runs + 1),
                            !.start_time = clock,
                            !.batch = {r.id : r \in Range(conversations)}]]
    /\ faults' = IF db_ok THEN faults ELSE faults + 1
    /\ hist' = [hist EXCEPT
                  !.no_insert = TRUE,
                  !.overlap = @ \/ \E q \in Procs \ {p} : run[q].pc # "idle"]
    /\ UNCHANGED <<clock, chats, tree, head, remote, limits, probe>>

(* ---- the run: processing the conversations --------------------------------- *)
ChunkBase(chat_id, chunk_index) == ToString(chat_id) \o "-" \o ToString(chunk_index)

(* the addresses a logical name was resolved to in this run *)
AddResolved(resolved, base_name, filename) ==
    IF base_name \in DOMAIN resolved
    THEN [resolved EXCEPT ![base_name] = @ \cup {filename}]
    ELSE resolved @@ (base_name :> {filename})

(* lines 387-402: the body of the loop over the chunks of one conversation.
   w = [nonce_map, tree, chunk_urls, write_failed, resolved] *)
WriteChunk(w, rec, tags, c, F, nonce) ==
    LET chunk_base_name == ChunkBase(rec.id, c.ix)
        n == Gen(F, chunk_base_name, nonce)
        chunk_filename == get_nonce_filename(chunk_base_name, w.nonce_map, n)
        chunk_path == CHUNK_DIR \o "/" \o chunk_filename
        chunk_data == [kind |-> "chunk", id |-> rec.id, chunk_ix |-> c.ix,
                       created_at |-> isoformat(rec.created_at),
                       source |-> rec.source, tags |-> sorted_tags(tags),
                       content |-> c.text]
        out == Outcome(F, chunk_base_name)
    IN [nonce_map |-> nonce_map_after(chunk_base_name, w.nonce_map, n),
        tree |-> save_json_file(w.tree, chunk_path, chunk_data, out),
        chunk_urls |-> IF out = "ok"
                       THEN Append(w.chunk_urls, "chunks/" \o chunk_filename)
                       ELSE w.chunk_urls,
        write_failed |-> w.write_failed \/ out # "ok",
        resolved |-> AddResolved(w.resolved, chunk_base_name, chunk_filename)]

(* line 386: for chunk_index, chunk_text in chunks (each iteration's result
   is bound as a value before the next one reads it) *)
RECURSIVE WriteChunks(_, _, _, _, _, _)
WriteChunks(w, rec, tags, chunks, F, nonce) ==
    IF chunks = <<>> THEN w
    ELSE CHOOSE r \in {WriteChunks(w1, rec, tags, Tail(chunks), F, nonce) :
                         w1 \in {WriteChunk(w, rec, tags, Head(chunks), F, nonce)}} : TRUE

(* lines 409, 411, 413: the text fields of an item *)
item_title(rec) ==
    Take(IF rec.summary # <<>> THEN rec.summary ELSE <<rec.source, "conversation">>,
         TITLE_LEN)
item_summary(rec) == rec.summary
item_preview(redacted_content) ==
    Take(redacted_content, PREVIEW_LEN)
      \o (IF Len(redacted_content) > PREVIEW_LEN THEN <<"...">> ELSE <<>>)

AppendTo(groups, key, item) ==
    IF key \in DOMAIN groups THEN [groups EXCEPT ![key] = Append(@, item)]
    ELSE groups @@ (key :> <<item>>)

(* a grouping that files an item under one of its keys only *)
AppendToOne(groups, keys, item) ==
    IF keys = {} THEN groups ELSE AppendTo(groups, CHOOSE k \in keys : TRUE, item)

RECURSIVE AppendToAll(_, _, _)
AppendToAll(groups, keys, item) ==
    IF keys = {} THEN groups
    ELSE LET k == CHOOSE k \in keys : TRUE
         IN AppendToAll(AppendTo(groups, k, item), keys \ {k}, item)

(* lines 404-414: the item of a conversation whose chunks were written *)
make_item(rec, tags, redacted_content, chunk_urls) ==
    [id |-> rec.id,
     created_at |-> isoformat(rec.created_at),
     source |-> rec.source,
     title |-> item_title(rec),
     tags |-> sorted_tags(tags),
     summary |-> item_summary(rec),
     chunk_urls |-> chunk_urls,
     preview_240 |-> item_preview(redacted_content)]

(* lines 404-428: the item of a conversation whose chunks were written, and
   its grouping by tag and by month.
   st = [nonce_map, tree, by_tag, by_month, count, write_failed, resolved] *)
AddItem(st, rec, tags, redacted_content, w) ==
    LET item == make_item(rec, tags, redacted_content, w.chunk_urls)
    IN [nonce_map |-> w.nonce_map, tree |-> w.tree,
        by_tag |-> AppendToAll(st.by_tag, tags, item),
        by_month |-> AppendTo(st.by_month, strftime_month(rec.created_at), item),
        count |-> st.count + 1,
        write_failed |-> w.write_failed, resolved |-> w.resolved]

(* lines 372-428: one iteration of the loop over the conversations *)
ProcessOne(st, rec, F, nonce) ==
    IF ~should_export_conversation(rec.content, rec.summary) THEN st
    ELSE CHOOSE r \in
           {AddItem(st, rec, tags, redacted_content,
                    WriteChunks([nonce_map |-> st.nonce_map, tree |-> st.tree,
                                 chunk_urls |-> <<>>,
                                 write_failed |-> st.write_failed,
                                 resolved |-> st.resolved],
                                rec, tags, chunk_content(redacted_content, CHUNK_SIZE),
                                F, nonce)) :
              tags \in {should_export_tags(rec.content, rec.summary)},
              redacted_content \in {redact_content(rec.content)}} : TRUE

(* line 372: for chat_id, created_at, source, content, summary in conversations *)
RECURSIVE ProcessAll(_, _, _, _)
ProcessAll(st, conversations, F, nonce) ==
    IF conversations = <<>> THEN st
    ELSE CHOOSE r \in {ProcessAll(st1, Tail(conversations), F, nonce) :
                         st1 \in {ProcessOne(st, Head(conversations), F, nonce)}} : TRUE

(* the chunk base names the batch resolves *)
ChunkNames(conversations) ==
    UNION { {ChunkBase(r.id, k - 1) :
               k \in 1..Len(chunk_content(redact_content(r.content), CHUNK_SIZE))} :
            r \in {q \in Range(conversations) :
                      should_export_conversation(q.content, q.summary)} }

(* export_memory_to_git, lines 367-428 *)
Process(p) ==
    /\ run[p].pc = "process"
    /\ \E F \in FaultChoices(GenSites \cup WriteSites(ChunkNames(run[p].conversations))) :
         \E st \in {ProcessAll([nonce_map |-> run[p].nonce_map, tree |-> tree,
                               by_tag |-> EmptyMap, by_month |-> EmptyMap,
                               count |-> 0, write_failed |-> FALSE,
                               resolved |-> EmptyMap],
                              run[p].conversations, F, run[p].nonce)} :
            /\ tree' = st.tree
            /\ run' = [run EXCEPT ![p].pc = "catalog",
                                  ![p].conversations = <<>>,
                                  ![p].nonce_map = st.nonce_map,
                                  ![p].new_items_by_tag = st.by_tag,
                                  ![p].new_items_by_month = st.by_month,
                                  ![p].new_exported_count = st.count,
                                  ![p].write_failed = st.write_failed,
                                  ![p].resolved = st.resolved]
            /\ faults' = faults + Cardinality(F)
    /\ UNCHANGED <<clock, chats, head, remote, runs, hist, limits, probe>>

(* ---- the run: shards, search map, nonce map, build metadata ---------------- *)
(* lines 439-448 and 452-461: the body of a loop over the shards.
   w = [nonce_map, tree, write_failed, resolved] *)
WriteShard(w, dir, key, items, now_iso, F, nonce) ==
    LET shard_data == [kind |-> "shard", version |-> "1",
                       generated_at |-> now_iso, items |-> items]
        n == Gen(F, key, nonce)
        shard_filename == get_nonce_filename(key, w.nonce_map, n)
        shard_path == dir \o "/" \o shard_filename
        out == Outcome(F, key)
    IN [nonce_map |-> nonce_map_after(key, w.nonce_map, n),
        tree |-> save_json_file(w.tree, shard_path, shard_data, out),
        write_failed |-> w.write_failed \/ out # "ok",
        resolved |-> AddResolved(w.resolved, key, shard_filename)]

(* lines 438 and 451: for key, items in final_items_by_.items() *)
RECURSIVE WriteShards(_, _, _, _, _, _, _)
WriteShards(w, dir, keys, items_by, now_iso, F, nonce) ==
    IF keys = {} THEN w
    ELSE CHOOSE r \in
           {WriteShards(w1, dir, keys \ {key}, items_by, now_iso, F, nonce) :
              <<key, w1>> \in
                {<<k, WriteShard(w, dir, k, items_by[k], now_iso, F, nonce)>> :
                   k \in {CHOOSE k \in keys : TRUE}}} : TRUE

(* line 466: nonce_map.get(tag, f"{tag}.json") *)
nonce_map_get(nonce_map, key) ==
    IF key \in DOMAIN nonce_map THEN nonce_map[key] ELSE Fallback(key)

(* lines 464-467 *)
search_tokens(tags, nonce_map) ==
    [tag \in tags |-> <<SHARD_TAG_DIR \o "/" \o nonce_map_get(nonce_map, tag)>>]

(* a total that counts each exported conversation once *)
total_exported_per_item(by_tag) ==
    Cardinality(UNION {{by_tag[k][i].id : i \in 1..Len(by_tag[k])} : k \in DOMAIN by_tag})

(* line 486: sum(len(items) for items in final_items_by_tag.values()) *)
RECURSIVE total_exported(_)
total_exported(by_tag) ==
    IF DOMAIN by_tag = {} THEN 0
    ELSE LET k == CHOOSE k \in DOMAIN by_tag : TRUE
         IN Len(by_tag[k])
              + total_exported([j \in DOMAIN by_tag \ {k} |-> by_tag[j]])

(* save_nonce_map: the same open-then-dump as save_json_file *)
save_nonce_map(t, nonce_map, outcome) ==
    save_json_file(t, NONCE_MAP_FILE, [kind |-> "nonce_map", map |-> nonce_map], outcome)

(* the run's resolutions, added to those of the runs that persisted their
   nonce map before it *)
MergeAddresses(addresses, resolved) ==
    [b \in DOMAIN addresses \cup DOMAIN resolved |->
        (IF b \in DOMAIN addresses THEN addresses[b] ELSE {})
          \cup (IF b \in DOMAIN resolved THEN resolved[b] ELSE {})]

(* export_memory_to_git, lines 430-498 *)
WriteCatalog(p) ==
    /\ run[p].pc = "catalog"
    /\ LET by_tag == run[p].new_items_by_tag
           by_month == run[p].new_items_by_month
           names == DOMAIN by_tag \cup DOMAIN by_month \cup {"search_map", "latest_build"}
       IN \E F \in FaultChoices(GenSites \cup WriteSites(names \cup {"nonce_map"})
                                 \cup TruncSites({"nonce_map"})) :
         \E w2 \in {WriteShards(
                       WriteShards([nonce_map |-> run[p].nonce_map, tree |-> tree,
                                    write_failed |-> run[p].write_failed,
                                    resolved |-> run[p].resolved],
                                   SHARD_TAG_DIR, DOMAIN by_tag, by_tag,
                                   utcnow_iso(run[p].nonce), F, run[p].nonce),
                       SHARD_DATE_DIR, DOMAIN by_month, by_month,
                       utcnow_iso(run[p].nonce), F, run[p].nonce)} :
         LET now_iso == utcnow_iso(run[p].nonce)
             search_map == [kind |-> "search_map", version |-> "1",
                            tokens |-> search_tokens(DOMAIN by_tag, w2.nonce_map),
                            security |-> "nonce_based_urls"]
             n3 == Gen(F, "search_map", run[p].nonce)
             search_map_filename == get_nonce_filename("search_map", w2.nonce_map, n3)
             nm3 == nonce_map_after("search_map", w2.nonce_map, n3)
             out3 == Outcome(F, "search_map")
             t3 == save_json_file(w2.tree, CATALOG_DIR \o "/" \o search_map_filename,
                                  search_map, out3)
             out4 == Outcome(F, "nonce_map")
             t4 == save_nonce_map(t3, nm3, out4)
             latest_build == [kind |-> "latest_build", generated_at |-> now_iso,
                              total_conversations |-> total_exported(by_tag),
                              new_conversations |-> run[p].new_exported_count,
                              incremental_update |-> run[p].last_export # {},
                              security |-> "nonce_based_urls",
                              search_map_url |-> CATALOG_DIR \o "/" \o search_map_filename]
             n5 == Gen(F, "latest_build", run[p].nonce)
             build_filename == get_nonce_filename("latest_build", nm3, n5)
             nm5 == nonce_map_after("latest_build", nm3, n5)
             out5 == Outcome(F, "latest_build")
             t5 == save_json_file(t4, META_DIR \o "/" \o build_filename,
                                  latest_build, out5)
             resolved == AddResolved(AddResolved(
                             [b \in DOMAIN w2.resolved |->
                                 IF b \in DOMAIN by_tag
                                 THEN w2.resolved[b] \cup {nonce_map_get(w2.nonce_map, b)}
                                 ELSE w2.resolved[b]],
                             "search_map", search_map_filename),
                           "latest_build", build_filename)
         IN /\ tree' = t5
            /\ run' = [run EXCEPT
                  ![p].pc = "publish",
                  ![p].nonce_map = nm5,
                  ![p].write_failed = w2.write_failed \/ out3 # "ok"
                                        \/ out4 # "ok" \/ out5 # "ok",
                  ![p].resolved = resolved]
            /\ hist' = IF out4 = "ok"
                       THEN [hist EXCEPT
                               !.addresses = MergeAddresses(hist.addresses, resolved)]
                       ELSE hist
            /\ faults' = faults + Cardinality(F)
    /\ UNCHANGED <<clock, chats, head, remote, runs, limits, probe>>

(* ---- the run: git add, commit, push ---------------------------------------- *)
(* git commit: "committed", or "noop" when there is nothing to commit, or
   "error"; check=False ignores its exit status *)
git_commit(t, h, commit_ok) ==
    IF ~commit_ok THEN [rc |-> "error", head |-> h]
    ELSE IF t = h THEN [rc |-> "noop", head |-> h]
    ELSE [rc |-> "committed", head |-> t]

(* a commit whose non-zero exit status ends the run, as check=True would *)
commit_raises_on_nonzero(rc) == rc # "committed"

(* line 510, check=False: no exit status of git commit raises
   CalledProcessError *)
commit_raises(rc) == FALSE

BoolToNat(b) == IF b THEN 0 ELSE 1

(* export_memory_to_git, lines 500-511 and 532-534 *)
Publish(p, add_ok, commit_ok, push_ok) ==
    /\ run[p].pc = "publish"
    /\ faults + BoolToNat(add_ok) + BoolToNat(commit_ok) + BoolToNat(push_ok) <= limits.faults
    /\ add_ok \/ (commit_ok /\ push_ok)
    /\ commit_ok \/ push_ok
    /\ faults' = faults + BoolToNat(add_ok) + BoolToNat(commit_ok) + BoolToNat(push_ok)
    /\ LET c == git_commit(tree, head, commit_ok)
       IN IF ~add_ok
          THEN /\ run' = Return(p, "False", "git")
               /\ UNCHANGED <<head, remote>>
          ELSE /\ head' = c.head
               /\ IF push_ok /\ ~commit_raises(c.rc)
                  THEN /\ remote' = c.head
                       /\ run' = [run EXCEPT ![p].pc = "save_timestamp",
                                             ![p].commit = c.rc,
                                             ![p].pushed = TRUE]
                  ELSE /\ remote' = remote
                       /\ run' = Return(p, "False", "git")
    /\ UNCHANGED <<clock, chats, tree, runs, hist, limits, probe>>

(* ---- the run: the watermark ------------------------------------------------- *)
(* line 514: export_timestamp = datetime.now() *)
export_timestamp(start_time, now) == now

(* save_export_timestamp *)
save_export_timestamp(t, timestamp, outcome) ==
    save_json_file(t, LAST_EXPORT_FILE,
                   [kind |-> "last_export",
                    last_export_timestamp |-> isoformat(timestamp),
                    export_completed |-> TRUE],
                   outcome)

(* export_memory_to_git, lines 513-530 *)
SaveTimestamp(p, outcome) ==
    /\ run[p].pc = "save_timestamp"
    /\ outcome \in {"ok", "keep", "trunc"}
    /\ outcome = "ok" \/ faults < limits.faults
    /\ faults' = IF outcome = "ok" THEN faults ELSE faults + 1
    /\ tree' = save_export_timestamp(tree, export_timestamp(run[p].start_time, clock),
                                     outcome)
    /\ run' = Return(p, IF outcome = "ok" THEN "True" ELSE "False", "end")
    /\ hist' = IF outcome = "ok"
               THEN [hist EXCEPT !.exported = @ \cup run[p].batch]
               ELSE hist
    /\ UNCHANGED <<clock, chats, head, remote, runs, limits, probe>>

(* the process is killed in the middle of a run: after the chunks were
   written, or after the catalog and the nonce map were (a kill before the
   first write leaves nothing behind, one after the push leaves what a failed
   save_export_timestamp leaves) *)
Kill(p) ==
    /\ run[p].pc \in {"catalog", "publish"}
    /\ faults < limits.faults
    /\ faults' = faults + 1
    /\ run' = Return(p, "killed", "killed")
    /\ UNCHANGED <<clock, chats, tree, head, remote, runs, hist, limits, probe>>

(* ---- specifications ---------------------------------------------------------- *)
(* lines 540-557: the process that runs main(), one export_memory_to_git call *)
Runner == 1

RunStep(p) ==
    \/ \E db_ok \in BOOLEAN : Start(p, db_ok)
    \/ Process(p)
    \/ WriteCatalog(p)
    \/ \E add_ok, commit_ok, push_ok \in BOOLEAN : Publish(p, add_ok, commit_ok, push_ok)
    \/ \E outcome \in {"ok", "keep", "trunc"} : SaveTimestamp(p, outcome)
    \/ Kill(p)

(* the runs are serialized: one invocation at a time *)
Next ==
    \/ \E shape \in Shapes : Insert(shape)
    \/ RunStep(Runner)

Spec == Init /\ [][Next]_vars

(* one invocation on a store smaller than the limit of the query (the
   program's limit is 1000 rows), with up to MaxRunFaults faults *)
InitRun ==
    /\ clock = 0
    /\ chats = {}
    /\ tree = EmptyMap
    /\ head = EmptyMap
    /\ remote = EmptyMap
    /\ run = [p \in Procs |-> Idle("none", "none")]
    /\ runs = 0
    /\ faults = 0
    /\ hist = [exported |-> {}, no_insert |-> FALSE, addresses |-> EmptyMap,
               overlap |-> FALSE]
    /\ limits = [runs |-> 1, faults |-> MaxRunFaults, rows |-> MaxRecords]
    /\ probe = NoProbe

NextRun ==
    \/ \E shape \in Shapes \cup ExtraShapes : Insert(shape)
    \/ RunStep(Runner)

SpecRun == InitRun /\ [][NextRun]_vars

(* two processes run main() with no lock between them (the program takes
   none): their steps interleave on the same working tree, repository and
   store; no fault is injected *)
InitConc ==
    /\ clock = 0
    /\ chats = {}
    /\ tree = EmptyMap
    /\ head = EmptyMap
    /\ remote = EmptyMap
    /\ run = [p \in Procs |-> Idle("none", "none")]
    /\ runs = 0
    /\ faults = 0
    /\ hist = [exported |-> {}, no_insert |-> FALSE, addresses |-> EmptyMap,
               overlap |-> FALSE]
    /\ limits = [runs |-> MaxConcRuns, faults |-> 0, rows |-> MaxRecords]
    /\ probe = NoProbe

ConcStep(p) ==
    \/ \E db_ok \in BOOLEAN : Start(p, db_ok)
    \/ Process(p)
    \/ WriteCatalog(p)
    \/ \E add_ok, commit_ok, push_ok \in BOOLEAN : Publish(p, add_ok, commit_ok, push_ok)
    \/ \E outcome \in {"ok", "keep", "trunc"} : SaveTimestamp(p, outcome)

NextConc ==
    \/ \E shape \in Shapes : Insert(shape)
    \/ \E p \in Procs : ConcStep(p)

SpecConc == InitConc /\ [][NextConc]_vars

(* ---- the functions applied on their own ----------------------------------- *)
Words == {"memory", "<redacted.email>", EmailWord, PhoneWord, IpWord, AllowedIpWord,
          GluedWord, NoBoundaryWord}
Texts == UNION {[1..n -> Words] : n \in 0..MaxLen}

InitPure ==
    /\ clock = 0
    /\ chats = {}
    /\ tree = EmptyMap
    /\ head = EmptyMap
    /\ remote = EmptyMap
    /\ run = [p \in Procs |-> Idle("none", "none")]
    /\ runs = 0
    /\ faults = 0
    /\ hist = [exported |-> {}, no_insert |-> FALSE, addresses |-> EmptyMap,
               overlap |-> FALSE]
    /\ limits = [runs |-> 0, faults |-> 0, rows |-> 0]
    /\ \E text \in Texts, size \in 1..MaxSize :
          probe = [fn |-> "input", text |-> text, size |-> size]

(* chunk_content(text, size) *)
ApplyChunk ==
    /\ probe.fn = "input"
    /\ probe' = [fn |-> "chunk_content", text |-> probe.text, size |-> probe.size,
                 out |-> chunk_content(probe.text, probe.size)]
    /\ UNCHANGED <<clock, chats, tree, head, remote, run, runs, faults, hist, limits>>

(* redact_content(text) *)
ApplyRedact ==
    /\ probe.fn = "input"
    /\ probe' = [fn |-> "redact_content", text |-> probe.text, size |-> probe.size,
                 out |-> redact_content(probe.text)]
    /\ UNCHANGED <<clock, chats, tree, head, remote, run, runs, faults, hist, limits>>

NextPure == ApplyChunk \/ ApplyRedact

SpecPure == InitPure /\ [][NextPure]_vars

(* ---- properties ---------------------------------------------------------------- *)
WatermarkFile(t) == IF Exists(t, LAST_EXPORT_FILE) THEN {t[LAST_EXPORT_FILE]} ELSE {}
NonceMapFile(t) == IF Exists(t, NONCE_MAP_FILE) THEN {t[NONCE_MAP_FILE]} ELSE {}

(* a step that begins a run of the serialized runner *)
Begins == run[Runner].pc = "idle" /\ runs' = runs + 1
(* such a step returns at lines 359-365 and writes nothing *)
ReturnsUntouched(result) ==
    /\ run'[Runner].pc = "idle"
    /\ run'[Runner].result = result
    /\ run'[Runner].exit = "empty"
    /\ tree' = tree /\ head' = head /\ remote' = remote
(* the store fails in the step, or holds no row newer than the watermark *)
QueryIsEmpty ==
    faults' # faults
      \/ \A r \in chats : \E t \in get_last_export_timestamp(tree) : r.created_at <= t

(* C1: last_export.json is written only at the end of a run in which every
   file write succeeded and stage, commit and push succeeded; in a run where
   one of them failed the file is after the run what it was before. *)
C1_WatermarkOnlyAfterFullSuccess ==
    [][WatermarkFile(tree') # WatermarkFile(tree) =>
         /\ run[Runner].pc = "save_timestamp"
         /\ ~run[Runner].write_failed
         /\ run[Runner].commit \in {"committed", "noop"}
         /\ run[Runner].pushed
         /\ Valid(tree', LAST_EXPORT_FILE)]_vars

(* C2: nonce_map.json is written only after stage, commit and push of the
   run succeeded. *)
C2_AddressBookOnlyAfterPublish ==
    [][NonceMapFile(tree') # NonceMapFile(tree) => run[Runner].pushed]_vars

(* C3: every eligible row is exported by some successful run.  Stated for a
   finite run: no eligible row is at or below the persisted watermark, out of
   reach of every later query, without having been in the batch of a
   successful run. *)
C3_NoEligibleRecordLeftBehind ==
    \A r \in chats :
        (/\ should_export_conversation(r.content, r.summary)
         /\ \E t \in get_last_export_timestamp(tree) : r.created_at <= t)
        => r.id \in hist.exported

(* C4: the watermark a successful run persists is the time at which the run
   started. *)
C4_WatermarkIsRunStart ==
    [][(run[Runner].pc = "save_timestamp" /\ run'[Runner].result = "True")
         => get_last_export_timestamp(tree') = {run[Runner].start_time}]_vars

(* the files a key's shard can be published at, and the ids of their items *)
ShardPaths(dir, key) ==
    {dir \o "/" \o Fallback(key)}
      \cup {dir \o "/" \o NonceName(key, generate_nonce(k)) : k \in 1..MaxRuns}
ItemIds(file) ==
    IF file.kind = "shard" THEN {file.items[i].id : i \in 1..Len(file.items)} ELSE {}
PublishedItems(r, dir, key) ==
    UNION {ItemIds(r[path]) : path \in ShardPaths(dir, key) \cap DOMAIN r}
MonthKeys == {strftime_month(t) : t \in 0..MaxRecords}

(* C5: an item in the published shard of a tag or month stays in that key's
   published shard after every later run. *)
C5_PublishedItemsKept ==
    [][/\ \A tag \in PUBLIC_TAGS :
            PublishedItems(remote, SHARD_TAG_DIR, tag)
              \subseteq PublishedItems(remote', SHARD_TAG_DIR, tag)
       /\ \A month \in MonthKeys :
            PublishedItems(remote, SHARD_DATE_DIR, month)
              \subseteq PublishedItems(remote', SHARD_DATE_DIR, month)]_vars

(* a text that redact_content leaves as it is: an output of redact_content *)
Redacted(text) == redact_content(text) = text

(* C6: every record-derived text field written to a file (chunk content, item
   title, summary and preview) is an output of redact_content. *)
C6_WrittenTextIsRedacted ==
    \A path \in DOMAIN tree :
        /\ tree[path].kind = "chunk" => Redacted(tree[path].content)
        /\ tree[path].kind = "shard" =>
             \A i \in 1..Len(tree[path].items) :
                 /\ Redacted(tree[path].items[i].title)
                 /\ Redacted(tree[path].items[i].summary)
                 /\ Redacted(tree[path].items[i].preview_240)

(* C7: a logical name is resolved to one address within a run, and to that
   same address by the runs that follow a run that persisted its nonce map. *)
C7_AddressesStable ==
    /\ \A b \in DOMAIN run[Runner].resolved :
          /\ Cardinality(run[Runner].resolved[b]) = 1
          /\ b \in DOMAIN hist.addresses =>
                hist.addresses[b] \cup run[Runner].resolved[b] = run[Runner].resolved[b]
    /\ \A b \in DOMAIN hist.addresses : Cardinality(hist.addresses[b]) = 1

(* C8: an incremental run whose query returns no row returns success and
   writes nothing: the working tree (with last_export.json and
   nonce_map.json), the local commit and the published tree are unchanged. *)
C8_IncrementalEmptyIsNoOp ==
    [][(Begins /\ get_last_export_timestamp(tree) # {} /\ QueryIsEmpty)
         => ReturnsUntouched("True")]_vars

C8_Witness ==
    /\ run[Runner].result = "True" /\ run[Runner].exit = "empty"
    /\ faults = 0 /\ Valid(tree, LAST_EXPORT_FILE)

(* C9: when a run returned success and no row was inserted since it began,
   the next run returns success with no new item and changes no file. *)
C9_SecondRunIsNoOp ==
    [][(Begins /\ run[Runner].result = "True" /\ hist.no_insert)
         => ReturnsUntouched("True")]_vars

(* C10: a full run whose query returns no row returns failure and writes
   nothing, so that the next run is full again. *)
C10_FullEmptyFails ==
    [][(Begins /\ get_last_export_timestamp(tree) = {} /\ (faults' # faults \/ chats = {}))
         => (ReturnsUntouched("False") /\ get_last_export_timestamp(tree') = {})]_vars

C10_Witness ==
    /\ run[Runner].result = "False" /\ run[Runner].exit = "empty"
    /\ faults = 0 /\ chats = {} /\ runs > 0

(* C11: a full run whose query returned rows of which none is eligible
   returns failure and leaves last_export.json as it was. *)
C11_FullNothingEligibleFails ==
    [][(/\ run[Runner].pc = "save_timestamp"
        /\ run[Runner].last_export = {}
        /\ run[Runner].new_exported_count = 0
        /\ run'[Runner].pc = "idle")
         => (/\ run'[Runner].result = "False"
             /\ WatermarkFile(tree') = WatermarkFile(tree))]_vars

(* C12: a run in which the store is unreachable or the query fails does not
   return success, in a full and in an incremental run, and leaves the working
   tree (with last_export.json and nonce_map.json), the local commit and the
   published tree unchanged. *)
C12_StoreFailureNeverSuccess ==
    [][(Begins /\ faults' # faults)
         => (/\ run'[Runner].pc = "idle"
             /\ run'[Runner].result # "True"
             /\ tree' = tree /\ head' = head /\ remote' = remote)]_vars

(* C13: a run whose stage or push failed returns failure at once, and a run
   whose commit failed with an error other than nothing-to-commit returns
   failure; in both last_export.json is left as it was. *)
C13_PublishFailureIsFatal ==
    [][/\ (run[Runner].pc = "publish" /\ faults' # faults
             /\ run'[Runner].pc = "idle" /\ run'[Runner].exit # "killed")
          => (/\ run'[Runner].result = "False"
              /\ WatermarkFile(tree') = WatermarkFile(tree))
       /\ (run[Runner].pc = "save_timestamp" /\ run[Runner].commit = "error"
             /\ run'[Runner].pc = "idle")
          => (/\ run'[Runner].result = "False"
              /\ WatermarkFile(tree') = WatermarkFile(tree))]_vars

(* the shards the running invocation has built, and their items *)
ShardOf(groups, key) == IF key \in DOMAIN groups THEN groups[key] ELSE <<>>
BuiltItems ==
    UNION ({Range(run[Runner].new_items_by_tag[k]) :
              k \in DOMAIN run[Runner].new_items_by_tag}
           \cup {Range(run[Runner].new_items_by_month[k]) :
                   k \in DOMAIN run[Runner].new_items_by_month})
Occurrences(items, id) == Cardinality({i \in 1..Len(items) : items[i].id = id})
Built == run[Runner].pc \in {"catalog", "publish", "save_timestamp"}
Written == run[Runner].pc \in {"publish", "save_timestamp"} /\ ~run[Runner].write_failed
RowOf(id) == CHOOSE r \in chats : r.id = id

(* C14: every item built by a run is once in the shard of each tag it
   carries, once in the shard of the month of its created_at and in no other
   shard, and the shard files the run wrote hold these items; an eligible row
   whose redacted content fits in one chunk has exactly one chunk, of index 0
   and holding the whole redacted content. *)
C14_ItemOncePerShard ==
    Built =>
      /\ \A item \in BuiltItems :
            /\ \A tag \in PUBLIC_TAGS :
                  Occurrences(ShardOf(run[Runner].new_items_by_tag, tag), item.id)
                    = IF tag \in Range(item.tags) THEN 1 ELSE 0
            /\ \A month \in MonthKeys \cup DOMAIN run[Runner].new_items_by_month :
                  Occurrences(ShardOf(run[Runner].new_items_by_month, month), item.id)
                    = IF month = strftime_month(fromisoformat(item.created_at))
                      THEN 1 ELSE 0
            /\ (Written /\ Len(redact_content(RowOf(item.id).content)) <= CHUNK_SIZE)
                  => /\ Len(item.chunk_urls) = 1
                     /\ Valid(tree, item.chunk_urls[1])
                     /\ tree[item.chunk_urls[1]].chunk_ix = 0
                     /\ tree[item.chunk_urls[1]].content
                           = redact_content(RowOf(item.id).content)
      /\ Written =>
            /\ \A tag \in DOMAIN run[Runner].new_items_by_tag :
                  LET path == SHARD_TAG_DIR \o "/" \o nonce_map_get(run[Runner].nonce_map, tag)
                  IN Valid(tree, path)
                       /\ tree[path].items = run[Runner].new_items_by_tag[tag]
            /\ \A month \in DOMAIN run[Runner].new_items_by_month :
                  LET path == SHARD_DATE_DIR \o "/" \o nonce_map_get(run[Runner].nonce_map, month)
                  IN Valid(tree, path)
                       /\ tree[path].items = run[Runner].new_items_by_month[month]

C14_Witness ==
    /\ Written
    /\ Len(ShardOf(run[Runner].new_items_by_tag, "memory")) = 2
    /\ Len(ShardOf(run[Runner].new_items_by_tag, "system")) = 1
    /\ \E item \in BuiltItems : Len(item.chunk_urls) = 1

(* the search map the running invocation wrote *)
SearchMapPath == CATALOG_DIR \o "/" \o nonce_map_get(run[Runner].nonce_map, "search_map")

(* C15: the search map a run wrote has, for every tag and every month for
   which the run wrote a shard, the address at which it wrote that shard. *)
C15_SearchMapCoversShards ==
    Written =>
      /\ Valid(tree, SearchMapPath)
      /\ \A tag \in DOMAIN run[Runner].new_items_by_tag :
            /\ tag \in DOMAIN tree[SearchMapPath].tokens
            /\ tree[SearchMapPath].tokens[tag]
                  = <<SHARD_TAG_DIR \o "/" \o nonce_map_get(run[Runner].nonce_map, tag)>>
      /\ \A month \in DOMAIN run[Runner].new_items_by_month :
            /\ month \in DOMAIN tree[SearchMapPath].tokens
            /\ tree[SearchMapPath].tokens[month]
                  = <<SHARD_DATE_DIR \o "/" \o nonce_map_get(run[Runner].nonce_map, month)>>

(* the public tags that occur in the words of a row *)
TagsIn(r) ==
    {tag \in PUBLIC_TAGS :
        \E w \in Range(r.content) \cup Range(r.summary) :
            \/ w = tag
            \/ (w = "Memory" /\ tag = "memory")
            \/ (w \in {"systematic", "Systematic"} /\ tag = "system")}
TagPos(t) == CHOOSE k \in 1..Len(TagOrder) : TagOrder[k] = t
Ascending(tags) ==
    \A i, j \in 1..Len(tags) : i < j => TagPos(tags[i]) < TagPos(tags[j])
BatchRows == {RowOf(id) : id \in run[Runner].batch}
FilesOf(id) ==
    {path \in DOMAIN tree : tree[path] # Truncated /\ tree[path].kind = "chunk"
                              /\ tree[path].id = id}

(* C16: of the rows of a run's batch, a row without content or without any
   public tag in its content and summary gets no chunk and no item; every
   other row gets one item whose tags are the public tags that occur in it,
   in sorted order. *)
C16_EligibilityAndTags ==
    Built =>
      \A r \in BatchRows :
          IF r.content = <<>> \/ TagsIn(r) = {}
          THEN /\ \A item \in BuiltItems : item.id # r.id
               /\ FilesOf(r.id) = {}
          ELSE \E item \in BuiltItems :
                  /\ item.id = r.id
                  /\ Range(item.tags) = TagsIn(r)
                  /\ Len(item.tags) = Cardinality(TagsIn(r))
                  /\ Ascending(item.tags)

C16_Witness ==
    /\ Built
    /\ \E r \in BatchRows : r.content = <<>> /\ TagsIn(r) # {}
    /\ \E item \in BuiltItems : Len(item.tags) = 2

(* the chunks of a call, put together in the order returned *)
RECURSIVE Joined(_)
Joined(chunks) ==
    IF chunks = <<>> THEN <<>> ELSE Head(chunks).text \o Joined(Tail(chunks))

(* C17: chunk_content(T, S) with S > 0 returns chunks of indexes 0, 1, ...,
   n-1 in this order, each at most S long and all but the last exactly S
   long, which put together are T; for an empty T it returns no chunk. *)
C17_ChunksRebuildText ==
    probe.fn = "chunk_content" =>
      /\ \A k \in 1..Len(probe.out) :
            /\ probe.out[k].ix = k - 1
            /\ Len(probe.out[k].text) <= probe.size
            /\ Len(probe.out[k].text) >= 1
            /\ k < Len(probe.out) => Len(probe.out[k].text) = probe.size
      /\ Joined(probe.out) = probe.text
      /\ probe.text = <<>> => probe.out = <<>>

C17_Witness ==
    /\ probe.fn = "chunk_content"
    /\ Len(probe.out) = 2
    /\ Len(probe.out[2].text) < probe.size

(* C18: redact_content(redact_content(T)) = redact_content(T); the
   substitutions are applied in the order email, phone, IP (a phone number
   right behind an address is replaced too) and 104.191.236.122 is kept. *)
C18_RedactIdempotent ==
    probe.fn = "redact_content" =>
      /\ redact_content(probe.out) = probe.out
      /\ Len(probe.out) = Len(probe.text)
      /\ \A i \in 1..Len(probe.text) :
            /\ probe.text[i] = AllowedIpWord => probe.out[i] = AllowedIpWord
            /\ probe.text[i] = GluedWord
                  => probe.out[i] = "<redacted.email><redacted.phone>"
            /\ probe.text[i] = IpWord => probe.out[i] = "<redacted.ip>"

C18_Witness ==
    /\ probe.fn = "redact_content"
    /\ \E i, j, k \in 1..Len(probe.text) :
          /\ probe.text[i] = GluedWord
          /\ probe.text[j] = AllowedIpWord
          /\ probe.text[k] = IpWord
    /\ probe.out # probe.text

(* the chunks of a row, and the addresses of those that are in the working
   tree, by ascending index (in the one run of SpecRun a chunk is in the tree
   exactly when its write succeeded) *)
ChunksOf(r) == chunk_content(redact_content(r.content), CHUNK_SIZE)
ChunkUrl(r, k) ==
    "chunks/" \o nonce_map_get(run[Runner].nonce_map, ChunkBase(r.id, k - 1))
WrittenChunkUrls(r) ==
    SelectSeq([k \in 1..Len(ChunksOf(r)) |-> ChunkUrl(r, k)],
              LAMBDA url : Exists(tree, url))
ChunkSkipped ==
    /\ Built
    /\ \E item \in BuiltItems :
          Len(item.chunk_urls) < Len(ChunksOf(RowOf(item.id)))

(* the chunk_urls of every built item are the addresses of its written chunks *)
ChunkUrlsAreWrittenChunks ==
    Built =>
      \A r \in BatchRows :
          should_export_conversation(r.content, r.summary) =>
             \E item \in BuiltItems :
                 item.id = r.id /\ item.chunk_urls = WrittenChunkUrls(r)

(* C19: when the write of a chunk fails the run goes on: the item's
   chunk_urls are the addresses of the chunks written, by ascending index,
   the item is in its shards, and the run returns success exactly when stage,
   commit (nothing-to-commit included) and push succeeded and
   last_export.json was written. *)
C19_ChunkFailureSkipped ==
    [][/\ ChunkUrlsAreWrittenChunks
       /\ (ChunkSkipped /\ run'[Runner].pc = "idle" /\ run'[Runner].exit # "killed")
            => (run'[Runner].result = "True"
                  <=> (/\ run[Runner].pc = "save_timestamp"
                       /\ run[Runner].pushed
                       /\ run[Runner].commit \in {"committed", "noop"}
                       /\ Valid(tree', LAST_EXPORT_FILE)))]_vars

(* C20: when git commit has nothing to commit and stage and push succeed,
   the run goes on to write last_export.json, and returns success once it is
   written. *)
C20_NothingToCommitIsSuccess ==
    [][/\ (run[Runner].pc = "publish" /\ tree = head
             /\ faults' = faults /\ run' # run)
          => (/\ run'[Runner].pc = "save_timestamp"
              /\ run'[Runner].commit = "noop"
              /\ run'[Runner].pushed)
       /\ (run[Runner].pc = "save_timestamp" /\ run[Runner].commit = "noop"
             /\ faults' = faults /\ run' # run)
          => (/\ run'[Runner].result = "True"
              /\ get_last_export_timestamp(tree') = {clock})]_vars

C20_Witness ==
    /\ run[Runner].result = "True"
    /\ run[Runner].exit = "end"
    /\ head = EmptyMap
    /\ DOMAIN tree = {LAST_EXPORT_FILE}

(* what nonce_map.json holds *)
PersistedMap ==
    IF Valid(tree, NONCE_MAP_FILE) THEN tree[NONCE_MAP_FILE].map ELSE EmptyMap
HasAddress(name, dir, url) ==
    name \in DOMAIN PersistedMap /\ url = dir \o "/" \o PersistedMap[name]
(* the addresses written in the files of a tree are those of nonce_map.json:
   the chunk URLs of the items of a shard (chunk k-1 of row id), the shard
   URLs of a search map (tag), the search map URL of the build metadata *)
AddressesInBook(files) ==
    \A path \in DOMAIN files :
        /\ (files[path] # Truncated /\ files[path].kind = "shard") =>
              \A i \in 1..Len(files[path].items) :
                  \A k \in 1..Len(files[path].items[i].chunk_urls) :
                      HasAddress(ChunkBase(files[path].items[i].id, k - 1), CHUNK_DIR,
                                 files[path].items[i].chunk_urls[k])
        /\ (files[path] # Truncated /\ files[path].kind = "search_map") =>
              \A tag \in DOMAIN files[path].tokens :
                  HasAddress(tag, SHARD_TAG_DIR, files[path].tokens[tag][1])
        /\ (files[path] # Truncated /\ files[path].kind = "latest_build") =>
              HasAddress("search_map", CATALOG_DIR, files[path].search_map_url)
Quiet == \A p \in Procs : run[p].pc = "idle"

(* C21: as long as no invocation began while another was running, every
   address written in a file of the working tree or of the published tree is
   the entry of its logical name in nonce_map.json; two overlapping
   invocations, each loading the nonce map before the other saves it, end
   with a published address that nonce_map.json does not hold. *)
C21_SerializedAddressesInBook ==
    ~hist.overlap => (AddressesInBook(tree) /\ AddressesInBook(remote))

C21_Witness ==
    /\ hist.overlap
    /\ Quiet
    /\ \A p \in Procs : run[p].result = "True"
    /\ ~AddressesInBook(remote)

(* the build metadata the running invocation wrote *)
BuildPath == META_DIR \o "/" \o nonce_map_get(run[Runner].nonce_map, "latest_build")
BuildWritten ==
    /\ run[Runner].pc \in {"publish", "save_timestamp"}
    /\ Valid(tree, BuildPath)
    /\ tree[BuildPath].kind = "latest_build"
    /\ tree[BuildPath].generated_at = utcnow_iso(run[Runner].nonce)
RECURSIVE SumTags(_)
SumTags(items) ==
    IF items = {} THEN 0
    ELSE LET item == CHOOSE item \in items : TRUE
         IN Len(item.tags) + SumTags(items \ {item})

(* C22: in the build metadata a run writes, total_conversations is the sum
   over the run's exported items of the number of tags each carries,
   new_conversations is the number of these items, so the total is never
   less than new_conversations and equals it exactly when every exported
   item carries a single tag. *)
C22_TotalCountsTagMemberships ==
    BuildWritten =>
      /\ tree[BuildPath].total_conversations = SumTags(BuiltItems)
      /\ tree[BuildPath].new_conversations = Cardinality(BuiltItems)
      /\ tree[BuildPath].total_conversations >= tree[BuildPath].new_conversations
      /\ (tree[BuildPath].total_conversations = tree[BuildPath].new_conversations)
            <=> (\A item \in BuiltItems : Len(item.tags) = 1)

C22_Witness ==
    /\ BuildWritten
    /\ tree[BuildPath].total_conversations = 3
    /\ tree[BuildPath].new_conversations = 2
    /\ \E item \in BuiltItems : Len(item.tags) = 2
====
